---- MODULE Spec2Model ----
(***************************************************************************)
(* A model of the BBQ catalog scraper.                                     *)
(*                                                                         *)
(*   - the reconciliation loop of index.py (upload_to_database), which     *)
(*     matches every record of the snapshot file against the store table   *)
(*     and inserts, updates or skips it;                                   *)
(*   - the URL collector of light_scraper.py (extract_product_urls),       *)
(*     which walks the listing pages of a brand and gathers the cleaned,   *)
(*     de-duplicated item URLs.                                            *)
(*                                                                         *)
(* Field values are opaque tokens (strings): the code only ever compares   *)
(* them for equality.  The store is the external table; it keeps what is   *)
(* written to it and returns the rows matching a query in no particular    *)
(* order (the query has no ORDER BY).                                      *)
(***************************************************************************)
EXTENDS Integers, Sequences, FiniteSets, TLC

(***************************************************************************)
(* Bounds of the model.                                                    *)
(***************************************************************************)
\* records in the snapshot file
MaxBatch == 2
\* rows in the store before the first run
MaxSeed == 1
\* store calls that raise
MaxFaults == 2
\* listing pages of a brand
MaxPages == 2
\* anchors on the listing pages of a brand, all pages together
MaxLinks == 3

\* buttons of either kind in a pagination region
MaxButtons == 2

(***************************************************************************)
(* Product records (the dicts built by scrape_product and read back from   *)
(* products.json).                                                         *)
(***************************************************************************)
SnapshotKeys ==
    {"url", "Title", "Price", "brand", "Image", "Other_image", "Id", "Model",
     "category", "Description", "Specifications"}

Base ==
    [url |-> "u1", Title |-> "t1", Price |-> "p1", brand |-> "b1",
     Image |-> "img1", Other_image |-> "o1", Id |-> "i1", Model |-> "m1",
     category |-> "c1", Description |-> "d1", Specifications |-> "s1"]

With(p, f, v) == [p EXCEPT ![f] = v]

\* the fields the update check compares, in the order the loop visits them
fields_to_compareUrl ==
    <<"Title", "Price", "Image", "Description", "Specifications", "category", "url">>

fields_to_compareShort ==
    <<"Title", "Price", "Image", "Description", "Specifications">>

fields_to_compare ==
    <<"Title", "Price", "Image", "Description", "Specifications", "category">>

Range(s) == {s[k] : k \in 1..Len(s)}

ContentFields == SnapshotKeys \ {"brand", "Id", "Model"}

\* records with one key and every content field varied in turn
ContentProducts == {Base} \cup {With(Base, f, "alt") : f \in ContentFields}

\* records with full, partial, empty and repeated keys
KeyProducts ==
    {Base, With(Base, "Title", "alt"), With(Base, "Id", "i2"),
     With(Base, "brand", ""), With(Base, "Id", ""), With(Base, "Model", ""),
     [Base EXCEPT !.brand = "", !.Id = "", !.Model = ""]}

\* the records the store may hold before the first run
SeedProducts ==
    {With(Base, "Model", "m2"), [Base EXCEPT !.Id = "i2", !.Title = "alt"]}

\* dict.get(key, default)
Get(d, key, default) == IF key \in DOMAIN d THEN d[key] ELSE default

\* Python truthiness of a string
Truthy(s) == s # ""

(***************************************************************************)
(* The store table scrapped_products2.                                     *)
(***************************************************************************)
\* insert(product): a new row with the product's columns and a fresh id
InsertRow(product, id) == product @@ [id |-> id, updated_at |-> "null"]

\* update(product).eq('id', id): every column of product is set on the row
UpdateRow(row, product) == product @@ row

\* the chain of .eq() filters of the lookup
BuildQueryAlways(product) ==
    {<<"brand", Get(product, "brand", "")>>,
     <<"Id", Get(product, "Id", "")>>,
     <<"Model", Get(product, "Model", "")>>}

BuildQuery(product) ==
    LET brand == Get(product, "brand", "")
        product_id == Get(product, "Id", "")
        model == Get(product, "Model", "")
    IN  (IF Truthy(brand) THEN {<<"brand", brand>>} ELSE {})
        \cup (IF Truthy(product_id) THEN {<<"Id", product_id>>} ELSE {})
        \cup (IF Truthy(model) THEN {<<"Model", model>>} ELSE {})

\* query.execute(): the rows that pass every filter
Execute(query, rows) == {r \in rows : \A q \in query : r[q[1]] = q[2]}

\* the comparison loop: some compared field differs
NeedsUpdateAlways(product, existing_product) == TRUE

NeedsUpdate(product, existing_product) ==
    \E k \in 1..Len(fields_to_compare) :
        Get(product, fields_to_compare[k], "None")
            # Get(existing_product, fields_to_compare[k], "None")

\* the product as sent by the update path
MarkUpdated(product) == [updated_at |-> "now()"] @@ product

\* the entries of product_details
Detail(product, action) ==
    [title |-> Get(product, "Title", "Unknown"),
     brand |-> Get(product, "brand", ""),
     action |-> action]

FailedDetail(product) ==
    [title |-> Get(product, "Title", "Unknown"),
     brand |-> Get(product, "brand", "Unknown"),
     action |-> "failed",
     error |-> "error"]

\* where the loop goes after the except block
ExceptAbort(idx, n) == n + 1

ExceptNext(idx, n) == idx + 1

(***************************************************************************)
(* URLs.  A URL or href is the sequence of its pieces, so that parsing,    *)
(* joining and the substring test of the link selector work on its text.   *)
(* Every href of the model that has a path has an absolute one without dot *)
(* segments, and none has ;parameters.                                     *)
(***************************************************************************)
base_url == <<"https:", "//", "www.bbqguys.com">>

brand_url == <<"https:", "//", "www.bbqguys.com", "/", "brands", "/", "b1">>

\* the hrefs of the anchors a listing page may hold
Hrefs ==
    {<<"/", "i", "/", "1", "?", "ref=home">>,
     <<"/", "i", "/", "1", "#", "top">>,
     <<"/", "i", "/", "2">>,
     <<"https:", "//", "www.bbqguys.com", "/", "i", "/", "2", "#", "top">>,
     <<"https:", "//", "other.example", "/", "i", "/", "2">>,
     <<"/", "c", "/", "3", "?", "next=", "/", "i", "/", "4">>,
     <<"/", "c", "/", "5">>}

\* the position of the first piece of s that is in S, Len(s) + 1 when none is
RECURSIVE FirstIn(_, _, _)
FirstIn(s, S, k) ==
    IF k > Len(s) THEN k
    ELSE IF s[k] \in S THEN k
    ELSE FirstIn(s, S, k + 1)

\* urlparse
urlparse(url) ==
    LET hasScheme == Len(url) > 0 /\ url[1] = "https:"
        r1 == IF hasScheme THEN Tail(url) ELSE url
        hasNetloc == Len(r1) > 0 /\ r1[1] = "//"
        r2 == IF hasNetloc THEN Tail(r1) ELSE r1
        netEnd == IF hasNetloc THEN FirstIn(r2, {"/", "?", "#"}, 1) ELSE 1
        r3 == SubSeq(r2, netEnd, Len(r2))
        hash == FirstIn(r3, {"#"}, 1)
        r4 == SubSeq(r3, 1, hash - 1)
        qmark == FirstIn(r4, {"?"}, 1)
    IN  [scheme |-> IF hasScheme THEN <<"https:">> ELSE <<>>,
         netloc |-> SubSeq(r2, 1, netEnd - 1),
         path |-> SubSeq(r4, 1, qmark - 1),
         query |-> SubSeq(r4, qmark + 1, Len(r4)),
         fragment |-> SubSeq(r3, hash + 1, Len(r3))]

\* urlunparse
urlunparse(parts) ==
    parts.scheme
    \o (IF parts.netloc # <<>> THEN <<"//">> \o parts.netloc ELSE <<>>)
    \o parts.path
    \o (IF parts.query # <<>> THEN <<"?">> \o parts.query ELSE <<>>)
    \o (IF parts.fragment # <<>> THEN <<"#">> \o parts.fragment ELSE <<>>)

\* urljoin(base, url)
urljoin(base, url) ==
    LET b == urlparse(base)
        u == urlparse(url)
    IN  IF u.scheme # <<>> /\ u.scheme # b.scheme THEN url
        ELSE IF u.netloc # <<>>
        THEN urlunparse([u EXCEPT !.scheme = b.scheme])
        ELSE IF u.path = <<>>
        THEN urlunparse([u EXCEPT !.scheme = b.scheme, !.netloc = b.netloc,
                                  !.path = b.path,
                                  !.query = IF u.query = <<>> THEN b.query
                                            ELSE u.query])
        ELSE urlunparse([u EXCEPT !.scheme = b.scheme, !.netloc = b.netloc])

\* the clean URL of an href: joined to the site, query and fragment dropped
CleanUrlKeepQuery(href) ==
    LET parsed == urlparse(urljoin(base_url, href))
    IN  urlunparse([parsed EXCEPT !.fragment = <<>>])

CleanUrl(href) ==
    LET parsed == urlparse(urljoin(base_url, href))
    IN  urlunparse([parsed EXCEPT !.query = <<>>, !.fragment = <<>>])

\* s holds the pieces of m in a row
Contains(s, m) ==
    \E k \in 1..(Len(s) - Len(m) + 1) : SubSeq(s, k, k + Len(m) - 1) = m

\* soup.select('a[href*="/i/"]'): the anchors whose href text holds /i/
SelectLinks(anchors) ==
    SelectSeq(anchors, LAMBDA href : Contains(href, <<"/", "i", "/">>))

\* max_products; 0 stands for None, which the code tests the same way
MaxProductsOf(test_mode) ==
    IF test_mode = 1 THEN 1 ELSE IF test_mode = 2 THEN 2 ELSE 0

\* max_products and len(all_urls) >= max_products
LimitReached(urls, max_products) ==
    max_products # 0 /\ Len(urls) >= max_products

\* the loop over the links of one page
RECURSIVE AddLinksNoBreak(_, _, _)
AddLinksNoBreak(urls, links, max_products) ==
    IF links = <<>> THEN urls
    ELSE LET clean_url == CleanUrl(Head(links))
         IN  IF clean_url \notin Range(urls)
             THEN AddLinksNoBreak(Append(urls, clean_url), Tail(links), max_products)
             ELSE AddLinksNoBreak(urls, Tail(links), max_products)

RECURSIVE AddLinks(_, _, _)
AddLinks(urls, links, max_products) ==
    IF links = <<>> THEN urls
    ELSE LET clean_url == CleanUrl(Head(links))
         IN  IF clean_url \notin Range(urls)
             THEN IF LimitReached(Append(urls, clean_url), max_products)
                  THEN Append(urls, clean_url)
                  ELSE AddLinks(Append(urls, clean_url), Tail(links), max_products)
             ELSE AddLinks(urls, Tail(links), max_products)

\* the URL requested for a page
PageUrl(n) ==
    IF n = 1 THEN brand_url
    ELSE urlunparse([urlparse(brand_url) EXCEPT
                        !.query = <<"page=", ToString(n)>>, !.fragment = <<>>])

\* where the loop goes after a page that could not be fetched
AbortPages(n, total) == total + 1

SkipPage(n, total) == n + 1

\* ---- get_page_count ----

\* aria-label values of buttons, word by word
Labels ==
    { <<"Go", "to", "page", "3">>,
      <<"page", "2">>,
      <<"Go", "to", "next", "page">>,
      <<"Go", "to", "Page", "4">>,
      <<"page", "0">> }

\* texts of number buttons; "sup2" stands for a superscript two, which
\* str.isdigit accepts and int rejects
Texts == {"1", "5", "...", "sup2"}

\* int(s) of the strings int accepts
IntOf == [s \in {"0", "1", "2", "3", "4", "5"} |->
            CASE s = "0" -> 0 [] s = "1" -> 1 [] s = "2" -> 2
              [] s = "3" -> 3 [] s = "4" -> 4 [] s = "5" -> 5]

\* str.isdigit
IsDigit(text) == text \in DOMAIN IntOf \cup {"sup2"}

\* str.lower, word by word
Lower(label) ==
    [k \in 1..Len(label) |->
        CASE label[k] = "Go" -> "go" [] label[k] = "Page" -> "page"
          [] OTHER -> label[k]]

\* button[aria-label*="page"]: the attribute holds "page", case as written
SelectsPage(label) == \E k \in 1..Len(label) : label[k] = "page"

\* re.findall(r'(?:go to )?page (\d+)', aria_label): the numbers after "page"
RECURSIVE page_matchesFrom(_, _)
page_matchesFrom(aria_label, k) ==
    IF k >= Len(aria_label) THEN <<>>
    ELSE IF aria_label[k] = "page" /\ aria_label[k + 1] \in DOMAIN IntOf
         THEN <<aria_label[k + 1]>> \o page_matchesFrom(aria_label, k + 2)
         ELSE page_matchesFrom(aria_label, k + 1)

page_matches(aria_label) == page_matchesFrom(aria_label, 1)

LastPage(max_page, n) == n

\* max(max_page, n)
MaxPage(max_page, n) == IF n > max_page THEN n ELSE max_page

\* the loop over one button's matches
RECURSIVE OverMatches(_, _)
OverMatches(max_page, matches) ==
    IF matches = <<>> THEN max_page
    ELSE OverMatches(MaxPage(max_page, IntOf[Head(matches)]), Tail(matches))

\* the loop over the buttons whose aria-label was selected
RECURSIVE OverPageButtons(_, _)
OverPageButtons(max_page, labels) ==
    IF labels = <<>> THEN max_page
    ELSE OverPageButtons(
            IF SelectsPage(Head(labels))
            THEN OverMatches(max_page, page_matches(Lower(Head(labels))))
            ELSE max_page,
            Tail(labels))

\* the loop over the number buttons; int raising ValueError is passed over
RECURSIVE OverNumberButtons(_, _)
OverNumberButtons(max_page, texts) ==
    IF texts = <<>> THEN max_page
    ELSE OverNumberButtons(
            IF IsDigit(Head(texts)) /\ Head(texts) \in DOMAIN IntOf
            THEN MaxPage(max_page, IntOf[Head(texts)])
            ELSE max_page,
            Tail(texts))

\* a page get_page gave None for
NoSoup == [fetched |-> FALSE, nav |-> FALSE, labels |-> <<>>, numbers |-> <<>>]

\* what get_page_count returns for a fetched document
CountPages(soup) ==
    IF soup.nav
    THEN OverNumberButtons(OverPageButtons(1, soup.labels), soup.numbers)
    ELSE 1

(***************************************************************************)
(* The site as the scraper sees it in one run, and what run() makes of it. *)
(***************************************************************************)
brand_url2 == <<"https:", "//", "www.bbqguys.com", "/", "brands", "/", "b2">>

\* the entries of url_list.json; the third has no url
BrandEntries ==
    { [brand |-> "b1", url |-> brand_url],
      [brand |-> "b2", url |-> brand_url2],
      [brand |-> "b3", url |-> <<>>] }

\* the cleaned URLs the listings below lead to
item1 == <<"https:", "//", "www.bbqguys.com", "/", "i", "/", "1">>
item2 == <<"https:", "//", "www.bbqguys.com", "/", "i", "/", "2">>
other2 == <<"https:", "//", "other.example", "/", "i", "/", "2">>
page3 == <<"https:", "//", "www.bbqguys.com", "/", "c", "/", "3">>

ItemUrls == {item1, item2, other2, page3}

\* a brand whose pages cannot be fetched at all
ListingDown == [soup |-> NoSoup, pages |-> <<>>]

\* a brand with one listing page and no pagination region
ListingOne ==
    [soup |-> [fetched |-> TRUE, nav |-> FALSE, labels |-> <<>>, numbers |-> <<>>],
     pages |-> << [ok |-> TRUE,
                   anchors |-> << <<"/", "i", "/", "1", "?", "ref=home">>,
                                  <<"/", "i", "/", "1", "#", "top">>,
                                  <<"/", "i", "/", "2">> >>] >>]

\* a brand with two listing pages, the first of which fails when collected
ListingTwo ==
    [soup |-> [fetched |-> TRUE, nav |-> TRUE,
               labels |-> << <<"page", "2">> >>, numbers |-> << "1" >>],
     pages |-> << [ok |-> FALSE, anchors |-> <<>>],
                  [ok |-> TRUE,
                   anchors |-> << <<"https:", "//", "other.example", "/", "i", "/", "2">>,
                                  <<"/", "c", "/", "3", "?", "next=", "/", "i", "/", "4">>,
                                  <<"/", "i", "/", "2">> >>] >>]

\* a brand whose items are spread over two listing pages
ListingSpread ==
    [soup |-> [fetched |-> TRUE, nav |-> TRUE,
               labels |-> << <<"Go", "to", "page", "2">> >>, numbers |-> <<>>],
     pages |-> << [ok |-> TRUE, anchors |-> << <<"/", "i", "/", "1">> >>],
                  [ok |-> TRUE,
                   anchors |-> << <<"/", "i", "/", "2">>,
                                  <<"https:", "//", "other.example", "/", "i", "/", "2">> >>] >>]

Listings == {ListingDown, ListingOne, ListingTwo, ListingSpread}

\* the dict scrape_product builds from the page at url
scrape_product(url) ==
    CASE url = item1 -> With(Base, "url", url)
      [] url = item2 -> [Base EXCEPT !.url = url, !.Title = "t2", !.Id = "i2"]
      [] url = other2 -> [Base EXCEPT !.url = url, !.Title = "alt", !.Id = "i2"]
      [] OTHER -> [Base EXCEPT !.url = url, !.Title = "t3", !.Id = "", !.Model = ""]

\* total_pages = self.get_page_count(brand_url)
total_pagesOf(listing) ==
    IF listing.soup.fetched THEN CountPages(listing.soup) ELSE 1

\* extract_product_urls: the loop over the pages, run to its end
RECURSIVE extract_product_urls(_, _, _, _, _)
extract_product_urls(pgs, total, mode, n, urls) ==
    IF n > total \/ LimitReached(urls, MaxProductsOf(mode)) THEN urls
    ELSE IF n > Len(pgs) \/ ~pgs[n].ok
         THEN extract_product_urls(pgs, total, mode, SkipPage(n, total), urls)
         ELSE extract_product_urls(pgs, total, mode, n + 1,
                  AddLinks(urls, SelectLinks(pgs[n].anchors), MaxProductsOf(mode)))

RECURSIVE scrape_all_productsStop(_, _)
scrape_all_productsStop(product_urls, unreachable) ==
    IF product_urls = <<>> \/ Head(product_urls) \in unreachable THEN <<>>
    ELSE <<scrape_product(Head(product_urls))>>
            \o scrape_all_productsStop(Tail(product_urls), unreachable)

\* scrape_all_products: scrape_product gives None for the unreachable URLs
RECURSIVE scrape_all_products(_, _)
scrape_all_products(product_urls, unreachable) ==
    IF product_urls = <<>> THEN <<>>
    ELSE (IF Head(product_urls) \in unreachable THEN <<>>
          ELSE <<scrape_product(Head(product_urls))>>)
            \o scrape_all_products(Tail(product_urls), unreachable)

\* run(brand_url, brand_name, test_mode): raised is the division by
\* len(product_urls) in the closing log line
RunOn(product_urls, unreachable) ==
    [product_urls |-> product_urls,
     products |-> scrape_all_products(product_urls, unreachable),
     raised |-> (product_urls = <<>>)]

Run(listing, mode, unreachable) ==
    RunOn(extract_product_urls(listing.pages, total_pagesOf(listing), mode, 1, <<>>),
          unreachable)

\* batch_size of save_to_supabase
batch_size == 100

BatchAtWhole(all, i0) == SubSeq(all, i0 + 1, Len(all))

\* products[i:i + batch_size], i counted from 0
BatchAt(all, i0) ==
    SubSeq(all, i0 + 1, IF i0 + batch_size < Len(all) THEN i0 + batch_size ELSE Len(all))

VARIABLES
    store,              \* the rows of the table
    nextId,             \* the id the table gives its next row
    file,               \* products.json
    products,           \* the list loaded from it
    i,                  \* the loop's position, 1-based
    run,                \* 1 in the first run of upload_to_database, 2 in a rerun
    new_products, updated_products, skipped_products, failed,
    product_details,
    calls,              \* what each record asked of the store, this run
    faults,             \* store calls that raised so far
    stats,              \* the returned summary
    upc,                \* "loop" | "done" ("idle": not running)
    test_mode,          \* argument of extract_product_urls
    total_pages,        \* argument of extract_product_urls
    page_num,           \* the page the loop is at
    all_urls,           \* the URLs gathered so far
    pages,              \* the pages requested so far and what came back
    cpc,                \* "loop" | "done" ("idle": not running)
    soup,               \* the brand page get_page_count asks for
    max_page,           \* what get_page_count returned
    gpc,                \* "start" | "done" ("idle": not running)
    env,                \* the environment variables and the state of the store service
    url_list,           \* url_list.json
    site,               \* the listing each brand page leads to
    down,               \* the item URLs scrape_product gets nothing from
    file_exists,        \* products.json is there
    spc,                \* light_scraper.py: "init" | "main" | "brands" | "save" |
                        \* "snapshot" | "exited" ("idle": not started)
    supabase,           \* self.supabase is a client
    brands,             \* the brands the loop goes over
    bi,                 \* the loop's position, 1-based
    all_products, successful_brands, failed_brands,
    runs,               \* the calls of run() so far and what they gave
    batch_i,            \* i of save_to_supabase
    upserts,            \* the batches sent to the table products
    written,            \* what was written to products.json, write by write
    scraper_exit,       \* exit status of light_scraper.py, -1 while it runs
    ipc,                \* index.py: "start" | "scraper" | "upload" | "exit"
                        \* ("idle": not started)
    connected,          \* who called create_client
    exit_code           \* exit status of index.py, -1 while it runs

varsU ==
    <<store, nextId, file, products, i, run, new_products, updated_products,
      skipped_products, failed, product_details, calls, faults, stats, upc>>

varsC == <<test_mode, total_pages, page_num, all_urls, pages, cpc>>

varsG == <<soup, max_page, gpc>>

\* the surroundings of a run, which no step changes
varsE == <<env, url_list, site, down>>

\* light_scraper.py as a process
varsS ==
    <<spc, supabase, brands, bi, all_products, successful_brands, failed_brands,
      runs, batch_i, upserts, written, scraper_exit>>

\* main of index.py
varsM == <<ipc, connected, exit_code>>

varsR == <<varsE, file_exists, varsS, varsM>>

vars == <<varsU, varsC, varsG, varsR>>

\* what the actions of upload_to_database leave alone
restU == <<varsC, varsG, varsR>>

\* what the actions of extract_product_urls leave alone
restC == <<varsU, varsG, varsR>>

\* what the actions of get_page_count leave alone
restG == <<varsU, varsC, varsR>>

\* what the steps of the two scripts leave alone
restR == <<varsC, varsG>>

\* extract_product_urls is not running
IdleC ==
    /\ test_mode = 0
    /\ total_pages = 1
    /\ page_num = 1
    /\ all_urls = <<>>
    /\ pages = <<>>
    /\ cpc = "idle"

\* get_page_count is not running
IdleG ==
    /\ soup = NoSoup
    /\ max_page = 0
    /\ gpc = "idle"

NoEnv ==
    [TEST_MODE |-> 0, USE_SUPABASE |-> FALSE, SUPABASE_URL |-> FALSE,
     SUPABASE_KEY |-> FALSE, SUPABASE_ANON_KEY |-> FALSE, connects |-> FALSE]

NoList == [state |-> "missing", brands |-> <<>>]

\* light_scraper.py has not been started
IdleS ==
    /\ spc = "idle"
    /\ supabase = FALSE
    /\ brands = <<>>
    /\ bi = 1
    /\ all_products = <<>>
    /\ successful_brands = 0
    /\ failed_brands = <<>>
    /\ runs = <<>>
    /\ batch_i = 0
    /\ upserts = <<>>
    /\ written = <<>>
    /\ scraper_exit = -1

\* index.py has not been started
IdleM ==
    /\ ipc = "idle"
    /\ connected = <<>>
    /\ exit_code = -1

\* neither script runs; products.json is the file given
IdleR ==
    /\ env = NoEnv
    /\ url_list = NoList
    /\ site = [u \in {brand_url, brand_url2} |-> ListingDown]
    /\ down = {}
    /\ file_exists = TRUE
    /\ IdleS
    /\ IdleM

RECURSIVE SeqsUpTo(_, _)
SeqsUpTo(S, n) ==
    IF n = 0 THEN {<<>>}
    ELSE LET shorter == SeqsUpTo(S, n - 1)
         IN  shorter \cup {Append(s, x) : s \in {t \in shorter : Len(t) = n - 1}, x \in S}

\* the rows of a store holding the records of S, with ids from id up
RECURSIVE SeedRows(_, _)
SeedRows(S, id) ==
    IF S = {} THEN {}
    ELSE LET p == CHOOSE x \in S : TRUE
         IN  {InsertRow(p, id)} \cup SeedRows(S \ {p}, id + 1)

KeyOf(r) == <<r.brand, r.Id, r.Model>>

NoStats == [new |-> 0, updated |-> 0, skipped |-> 0, failed |-> 0, total |-> 0,
            details |-> <<>>, success |-> TRUE]

\* the snapshot holds records of P, the store starts with records of S
InitWith(P, S) ==
    /\ \E seed \in SUBSET S :
          /\ Cardinality(seed) <= MaxSeed
          /\ \A a, b \in seed : a # b => KeyOf(a) # KeyOf(b)
          /\ store = SeedRows(seed, 1)
          /\ nextId = Cardinality(seed) + 1
    /\ file \in SeqsUpTo(P, MaxBatch)
    /\ products = file
    /\ i = 1
    /\ run = 1
    /\ new_products = 0
    /\ updated_products = 0
    /\ skipped_products = 0
    /\ failed = 0
    /\ product_details = <<>>
    /\ calls = <<>>
    /\ faults = 0
    /\ stats = NoStats
    /\ upc = "loop"
    /\ IdleC
    /\ IdleG
    /\ IdleR

\* what one record asked of the store: the lookup, the rows it returned, the
\* row taken as existing_product, and the writes that followed
Call(rec, query, qraised, data, first, writes, wraised, applied) ==
    [rec |-> rec, query |-> query, qraised |-> qraised, data |-> data,
     first |-> first, writes |-> writes, wraised |-> wraised, applied |-> applied]

Write(op, target, payload) == [op |-> op, target |-> target, payload |-> payload]

\* the except block: count the record as failed and go on
Except(call) ==
    /\ failed' = failed + 1
    /\ product_details' = Append(product_details, FailedDetail(products'[i]))
    /\ calls' = Append(calls, call)
    /\ faults' = faults + 1
    /\ i' = ExceptNext(i, Len(products))
    /\ UNCHANGED <<new_products, updated_products, skipped_products>>

\* query.execute() raises
QueryRaises ==
    /\ upc = "loop" /\ i <= Len(products) /\ faults < MaxFaults
    /\ products' = products
    /\ Except(Call(i, BuildQuery(products[i]), TRUE, {}, {}, <<>>, FALSE, FALSE))
    /\ UNCHANGED <<store, nextId, file, run, stats, upc>>

\* no row matches: insert
InsertNew ==
    /\ upc = "loop" /\ i <= Len(products)
    /\ LET product == products[i]
           query == BuildQuery(product)
           data == Execute(query, store)
       IN  /\ data = {}
           /\ store' = store \cup {InsertRow(product, nextId)}
           /\ nextId' = nextId + 1
           /\ new_products' = new_products + 1
           /\ product_details' = Append(product_details, Detail(product, "new"))
           /\ calls' = Append(calls,
                  Call(i, query, FALSE, data, {},
                       <<Write("insert", 0, product)>>, FALSE, TRUE))
    /\ i' = i + 1
    /\ UNCHANGED <<file, products, run, updated_products, skipped_products,
                   failed, faults, stats, upc>>

\* no row matches and the insert raises; the table may or may not have taken it
InsertRaises ==
    /\ upc = "loop" /\ i <= Len(products) /\ faults < MaxFaults
    /\ LET product == products[i]
           query == BuildQuery(product)
           data == Execute(query, store)
       IN  /\ data = {}
           /\ \E applied \in BOOLEAN :
                 /\ store' = IF applied THEN store \cup {InsertRow(product, nextId)}
                             ELSE store
                 /\ nextId' = IF applied THEN nextId + 1 ELSE nextId
                 /\ products' = products
                 /\ Except(Call(i, query, FALSE, data, {},
                                <<Write("insert", 0, product)>>, TRUE, applied))
    /\ UNCHANGED <<file, run, stats, upc>>

\* a row matches and differs: update it
UpdateExisting ==
    /\ upc = "loop" /\ i <= Len(products)
    /\ LET product == products[i]
           query == BuildQuery(product)
           data == Execute(query, store)
       IN  \E existing_product \in data :
              /\ NeedsUpdate(product, existing_product)
              /\ products' = [products EXCEPT ![i] = MarkUpdated(product)]
              /\ store' = (store \ {existing_product})
                            \cup {UpdateRow(existing_product, products'[i])}
              /\ updated_products' = updated_products + 1
              /\ product_details' = Append(product_details, Detail(product, "updated"))
              /\ calls' = Append(calls,
                     Call(i, query, FALSE, data, {existing_product},
                          <<Write("update", existing_product.id, products'[i])>>,
                          FALSE, TRUE))
    /\ i' = i + 1
    /\ UNCHANGED <<nextId, file, run, new_products, skipped_products, failed,
                   faults, stats, upc>>

\* a row matches and differs, and the update raises
UpdateRaises ==
    /\ upc = "loop" /\ i <= Len(products) /\ faults < MaxFaults
    /\ LET product == products[i]
           query == BuildQuery(product)
           data == Execute(query, store)
       IN  \E existing_product \in data, applied \in BOOLEAN :
              /\ NeedsUpdate(product, existing_product)
              /\ products' = [products EXCEPT ![i] = MarkUpdated(product)]
              /\ store' = IF applied
                          THEN (store \ {existing_product})
                                 \cup {UpdateRow(existing_product, products'[i])}
                          ELSE store
              /\ Except(Call(i, query, FALSE, data, {existing_product},
                             <<Write("update", existing_product.id, products'[i])>>,
                             TRUE, applied))
    /\ UNCHANGED <<nextId, file, run, stats, upc>>

\* a row matches and does not differ: skip
SkipIdentical ==
    /\ upc = "loop" /\ i <= Len(products)
    /\ LET product == products[i]
           query == BuildQuery(product)
           data == Execute(query, store)
       IN  \E existing_product \in data :
              /\ ~NeedsUpdate(product, existing_product)
              /\ skipped_products' = skipped_products + 1
              /\ product_details' = Append(product_details, Detail(product, "skipped"))
              /\ calls' = Append(calls,
                     Call(i, query, FALSE, data, {existing_product}, <<>>,
                          FALSE, FALSE))
    /\ i' = i + 1
    /\ UNCHANGED <<store, nextId, file, products, run, new_products,
                   updated_products, failed, faults, stats, upc>>

\* after the loop: the summary
Summarize ==
    /\ upc = "loop" /\ i > Len(products)
    /\ stats' = [new |-> new_products, updated |-> updated_products,
                 skipped |-> skipped_products, failed |-> failed,
                 total |-> Len(products), details |-> product_details,
                 success |-> (failed = 0)]
    /\ upc' = "done"
    /\ UNCHANGED <<store, nextId, file, products, i, run, new_products,
                   updated_products, skipped_products, failed, product_details,
                   calls, faults>>

\* upload_to_database runs again on the same file
RunAgain ==
    /\ upc = "done" /\ run = 1
    /\ run' = 2
    /\ products' = file
    /\ i' = 1
    /\ new_products' = 0
    /\ updated_products' = 0
    /\ skipped_products' = 0
    /\ failed' = 0
    /\ product_details' = <<>>
    /\ calls' = <<>>
    /\ upc' = "loop"
    /\ UNCHANGED <<store, nextId, file, faults, stats>>

NextU ==
    \/ QueryRaises /\ UNCHANGED restU
    \/ InsertNew /\ UNCHANGED restU
    \/ InsertRaises /\ UNCHANGED restU
    \/ UpdateExisting /\ UNCHANGED restU
    \/ UpdateRaises /\ UNCHANGED restU
    \/ SkipIdentical /\ UNCHANGED restU
    \/ Summarize /\ UNCHANGED restU
    \/ RunAgain /\ UNCHANGED restU

InitU == InitWith(KeyProducts, SeedProducts)

InitDiff == InitWith(ContentProducts, {Base})

\* reconciliation of records with all kinds of keys
SpecUpload == InitU /\ [][NextU]_vars

\* reconciliation of records that differ from a stored row field by field
SpecDiff == InitDiff /\ [][NextU]_vars

(***************************************************************************)
(* extract_product_urls.  One step is one turn of the loop over the pages.  *)
(* The test at the top of the loop (limit reached: break) is made at the   *)
(* end of the turn before it, and for the first turn in Init.              *)
(***************************************************************************)
\* upload_to_database is not running
IdleU ==
    /\ store = {}
    /\ nextId = 1
    /\ file = <<>>
    /\ products = <<>>
    /\ i = 1
    /\ run = 1
    /\ new_products = 0
    /\ updated_products = 0
    /\ skipped_products = 0
    /\ failed = 0
    /\ product_details = <<>>
    /\ calls = <<>>
    /\ faults = 0
    /\ stats = NoStats
    /\ upc = "idle"

\* the loop is over after the last page, and stops once the limit is reached
LoopState(n, urls) ==
    IF n > total_pages \/ LimitReached(urls, MaxProductsOf(test_mode))
    THEN "done" ELSE "loop"

InitC ==
    /\ test_mode \in {0, 1, 2}
    /\ total_pages \in 1..MaxPages
    /\ page_num = 1
    /\ all_urls = <<>>
    /\ pages = <<>>
    /\ cpc = LoopState(1, <<>>)
    /\ IdleU
    /\ IdleG
    /\ IdleR

\* the anchors of the pages fetched so far
RECURSIVE AnchorCount(_)
AnchorCount(log) ==
    IF log = <<>> THEN 0 ELSE Len(Head(log).anchors) + AnchorCount(Tail(log))

\* what a listing page may hold: up to n anchors
AnchorLists(n) == UNION {[1..k -> Hrefs] : k \in 0..n}

Page(n, ok, anchors) ==
    [num |-> n, url |-> PageUrl(n), ok |-> ok, anchors |-> anchors,
     had |-> Len(all_urls)]

\* the page is fetched: its item links are cleaned and added
FetchPage ==
    /\ cpc = "loop"
    /\ \E anchors \in AnchorLists(MaxLinks - AnchorCount(pages)) :
          /\ pages' = Append(pages, Page(page_num, TRUE, anchors))
          /\ all_urls' = AddLinks(all_urls, SelectLinks(anchors),
                                  MaxProductsOf(test_mode))
    /\ page_num' = page_num + 1
    /\ cpc' = LoopState(page_num', all_urls')
    /\ UNCHANGED <<test_mode, total_pages>>

\* get_page returns None: the page is skipped
FetchFails ==
    /\ cpc = "loop"
    /\ pages' = Append(pages, Page(page_num, FALSE, <<>>))
    /\ page_num' = SkipPage(page_num, total_pages)
    /\ cpc' = LoopState(page_num', all_urls)
    /\ UNCHANGED <<test_mode, total_pages, all_urls>>

NextC ==
    \/ FetchPage /\ UNCHANGED restC
    \/ FetchFails /\ UNCHANGED restC

\* URL collection over the listing pages of one brand
SpecCollect == InitC /\ [][NextC]_vars

(***************************************************************************)
(* get_page_count of light_scraper.py, on one brand page.                  *)
(***************************************************************************)
\* the brand pages: fetched or not, with or without a pagination region,
\* and the buttons in it
Soups ==
    [fetched : BOOLEAN, nav : BOOLEAN,
     labels : UNION {[1..k -> Labels] : k \in 0..MaxButtons},
     numbers : UNION {[1..k -> Texts] : k \in 0..MaxButtons}]

InitG ==
    /\ soup \in Soups
    /\ max_page = 0
    /\ gpc = "start"
    /\ IdleU
    /\ IdleC
    /\ IdleR

\* get_page returned None
PageNotFetched ==
    /\ gpc = "start"
    /\ ~soup.fetched
    /\ max_page' = 1
    /\ gpc' = "done"
    /\ UNCHANGED soup

PageCounted ==
    /\ gpc = "start"
    /\ soup.fetched
    /\ max_page' = CountPages(soup)
    /\ gpc' = "done"
    /\ UNCHANGED soup

NextG ==
    \/ PageNotFetched /\ UNCHANGED restG
    \/ PageCounted /\ UNCHANGED restG

\* get_page_count on every brand page
SpecPages == InitG /\ [][NextG]_vars

(***************************************************************************)
(* The two scripts: main of index.py starts light_scraper.py, waits for    *)
(* it, and then runs upload_to_database on products.json.                   *)
(***************************************************************************)
\* brand lists in url_list.json
MaxBrands == 2

\* the settings of the store: all set, the gate off, nothing set, only the
\* scraper's key missing, only the uploader's key missing, no connection
Settings ==
    { [USE_SUPABASE |-> TRUE, SUPABASE_URL |-> TRUE, SUPABASE_KEY |-> TRUE,
       SUPABASE_ANON_KEY |-> TRUE, connects |-> TRUE],
      [USE_SUPABASE |-> FALSE, SUPABASE_URL |-> TRUE, SUPABASE_KEY |-> TRUE,
       SUPABASE_ANON_KEY |-> TRUE, connects |-> TRUE],
      [USE_SUPABASE |-> TRUE, SUPABASE_URL |-> FALSE, SUPABASE_KEY |-> FALSE,
       SUPABASE_ANON_KEY |-> FALSE, connects |-> TRUE],
      [USE_SUPABASE |-> TRUE, SUPABASE_URL |-> TRUE, SUPABASE_KEY |-> FALSE,
       SUPABASE_ANON_KEY |-> TRUE, connects |-> TRUE],
      [USE_SUPABASE |-> TRUE, SUPABASE_URL |-> TRUE, SUPABASE_KEY |-> TRUE,
       SUPABASE_ANON_KEY |-> FALSE, connects |-> TRUE],
      [USE_SUPABASE |-> TRUE, SUPABASE_URL |-> TRUE, SUPABASE_KEY |-> TRUE,
       SUPABASE_ANON_KEY |-> TRUE, connects |-> FALSE] }

\* url_list.json: missing, not JSON, or a list of brands
UrlLists ==
    { [state |-> "missing", brands |-> <<>>],
      [state |-> "unparseable", brands |-> <<>>] }
    \cup { [state |-> "ok", brands |-> bs] :
             bs \in UNION {[1..k -> BrandEntries] : k \in 0..MaxBrands} }

\* the sites: which listing each brand page leads to
Sites ==
    { [u \in {brand_url, brand_url2} |-> ListingOne],
      [u \in {brand_url, brand_url2} |-> IF u = brand_url THEN ListingTwo ELSE ListingOne],
      [u \in {brand_url, brand_url2} |-> IF u = brand_url THEN ListingDown ELSE ListingTwo],
      [u \in {brand_url, brand_url2} |-> IF u = brand_url THEN ListingSpread ELSE ListingTwo] }

\* the item URLs out of reach: none, one of them, or all
Downs == {{}, {item2}, {page3}, ItemUrls}

\* a record an earlier run left in products.json
StaleProduct == With(scrape_product(item1), "Title", "old")

\* index.py is started with modes M, store settings S, brand lists L, on
\* websites W with item pages D out of reach
InitRun(M, S, L, W, D) ==
    /\ \E m \in M, st \in S : env = [TEST_MODE |-> m] @@ st
    /\ url_list \in L
    /\ site \in W
    /\ down \in D
    /\ file_exists \in BOOLEAN
    /\ file = IF file_exists THEN <<StaleProduct>> ELSE <<>>
    /\ store = {}
    /\ nextId = 1
    /\ products = <<>>
    /\ i = 1
    /\ run = 1
    /\ new_products = 0
    /\ updated_products = 0
    /\ skipped_products = 0
    /\ failed = 0
    /\ product_details = <<>>
    /\ calls = <<>>
    /\ faults = 0
    /\ stats = NoStats
    /\ upc = "idle"
    /\ IdleS
    /\ ipc = "start"
    /\ connected = <<>>
    /\ exit_code = -1
    /\ IdleC
    /\ IdleG

\* ---- light_scraper.py ----

\* LightScraper(): the client is made only behind the gate and with both values
NewLightScraper ==
    /\ spc = "init"
    /\ LET configured == env.USE_SUPABASE /\ env.SUPABASE_URL /\ env.SUPABASE_KEY
       IN  /\ supabase' = (configured /\ env.connects)
           /\ connected' = IF configured THEN Append(connected, "scraper")
                           ELSE connected
    /\ spc' = "main"
    /\ UNCHANGED <<varsU, varsE, file_exists, brands, bi, all_products,
                   successful_brands, failed_brands, runs, batch_i, upserts,
                   written, scraper_exit, ipc, exit_code>>

\* the process ends with the given status
Exits(status) ==
    /\ scraper_exit' = status
    /\ spc' = "exited"
    /\ UNCHANGED <<varsU, varsE, file_exists, supabase, brands, bi, all_products,
                   successful_brands, failed_brands, runs, batch_i, upserts,
                   written, varsM>>

\* main: url_list.json does not exist
UrlListMissing ==
    /\ spc = "main"
    /\ url_list.state = "missing"
    /\ Exits(1)

\* run_all_brands returns [] on a file json.load rejects, and main returns
LoadFails ==
    /\ spc = "main"
    /\ url_list.state = "unparseable"
    /\ Exits(0)

\* rand.choice of an empty list raises IndexError, which nothing catches
ChoiceRaises ==
    /\ spc = "main"
    /\ url_list.state = "ok"
    /\ env.TEST_MODE = 1
    /\ url_list.brands = <<>>
    /\ Exits(1)

\* where the brand loop stands at position n of list bs
AfterBrand(n, bs) == IF n > Len(bs) THEN "save" ELSE "brands"

StartLoop(bs) ==
    /\ brands' = bs
    /\ bi' = 1
    /\ spc' = AfterBrand(1, bs)
    /\ UNCHANGED <<varsU, varsE, file_exists, supabase, all_products,
                   successful_brands, failed_brands, runs, batch_i, upserts,
                   written, scraper_exit, varsM>>

ChoiceAll(bs, k) == bs

\* brands = [rand.choice(brands)], the choice falling on the k-th
Choice(bs, k) == <<bs[k]>>

\* test_mode 1: one brand of the list, chosen at random
ChooseBrand ==
    /\ spc = "main"
    /\ url_list.state = "ok"
    /\ env.TEST_MODE = 1
    /\ \E k \in 1..Len(url_list.brands) : StartLoop(Choice(url_list.brands, k))

LoadBrands ==
    /\ spc = "main"
    /\ url_list.state = "ok"
    /\ env.TEST_MODE # 1
    /\ StartLoop(url_list.brands)

\* one pass of the brand loop: what it adds to the three accumulators, and
\* the call of run() it made, if any
BrandDone(more, ok, bad, called) ==
    /\ all_products' = all_products \o more
    /\ successful_brands' = successful_brands + ok
    /\ failed_brands' = failed_brands \o bad
    /\ runs' = runs \o called
    /\ bi' = bi + 1
    /\ spc' = AfterBrand(bi + 1, brands)
    /\ UNCHANGED <<varsU, varsE, file_exists, supabase, brands, batch_i, upserts,
                   written, scraper_exit, varsM>>

\* the brand has no url
SkipBrand ==
    /\ spc = "brands"
    /\ brands[bi].url = <<>>
    /\ BrandDone(<<>>, 0, <<brands[bi].brand>>, <<>>)

\* run() of brand b
RunOf(b) == Run(site[b.url], env.TEST_MODE, down)

\* the entry of runs for a call of run() that gave got
RunRecord(got) == [brand |-> brands[bi].brand, got |-> got]

\* run() returned records
BrandScraped(got) ==
    /\ ~got.raised
    /\ got.products # <<>>
    /\ BrandDone(got.products, 1, <<>>, <<RunRecord(got)>>)

\* run() returned an empty list
BrandEmpty(got) ==
    /\ ~got.raised
    /\ got.products = <<>>
    /\ BrandDone(<<>>, 0, <<brands[bi].brand>>, <<RunRecord(got)>>)

\* run() raised, and the loop caught it
BrandRaises(got) ==
    /\ got.raised
    /\ BrandDone(<<>>, 0, <<brands[bi].brand>>, <<RunRecord(got)>>)

\* the brand has a url: run() is called
RunBrand ==
    /\ spc = "brands"
    /\ brands[bi].url # <<>>
    /\ \E got \in {RunOf(brands[bi])} :
          \/ BrandScraped(got)
          \/ BrandEmpty(got)
          \/ BrandRaises(got)

\* a step of the saving part that leaves the loop of save_to_supabase at n
\* with the batches sent being sent, and goes on at pc
Saving(n, sent, pc) ==
    /\ batch_i' = n
    /\ upserts' = sent
    /\ spc' = pc
    /\ UNCHANGED <<varsU, varsE, file_exists, supabase, brands, bi, all_products,
                   successful_brands, failed_brands, runs, written, scraper_exit,
                   varsM>>

\* no client: save_to_supabase is not called
SaveSkipped ==
    /\ spc = "save"
    /\ ~supabase
    /\ Saving(batch_i, upserts, "snapshot")

\* one batch is upserted
UpsertBatch ==
    /\ spc = "save"
    /\ supabase
    /\ batch_i < Len(all_products)
    /\ Saving(batch_i + batch_size,
              Append(upserts, [batch |-> BatchAt(all_products, batch_i),
                               raised |-> FALSE]),
              "save")

\* the upsert raises: save_to_supabase logs it and returns False
UpsertRaises ==
    /\ spc = "save"
    /\ supabase
    /\ batch_i < Len(all_products)
    /\ Saving(batch_i,
              Append(upserts, [batch |-> BatchAt(all_products, batch_i),
                               raised |-> TRUE]),
              "snapshot")

\* the loop of save_to_supabase is over
SaveDone ==
    /\ spc = "save"
    /\ supabase
    /\ batch_i >= Len(all_products)
    /\ Saving(batch_i, upserts, "snapshot")

\* json.dump(all_products) to products.json; run_all_brands and main return
WriteSnapshot ==
    /\ spc = "snapshot"
    /\ file' = all_products
    /\ file_exists' = TRUE
    /\ written' = Append(written, all_products)
    /\ scraper_exit' = 0
    /\ spc' = "exited"
    /\ UNCHANGED <<store, nextId, products, i, run, new_products, updated_products,
                   skipped_products, failed, product_details, calls, faults,
                   stats, upc, varsE, supabase, brands, bi, all_products,
                   successful_brands, failed_brands, runs, batch_i, upserts,
                   varsM>>

\* ---- index.py ----

\* run_scraper: subprocess.run of light_scraper.py
RunScraper ==
    /\ ipc = "start"
    /\ ipc' = "scraper"
    /\ spc' = "init"
    /\ UNCHANGED <<varsU, varsE, file_exists, supabase, brands, bi, all_products,
                   successful_brands, failed_brands, runs, batch_i, upserts,
                   written, scraper_exit, connected, exit_code>>

\* sys.exit(1)
ExitFailure(clients) ==
    /\ exit_code' = 1
    /\ ipc' = "exit"
    /\ connected' = clients
    /\ UNCHANGED <<varsU, varsE, file_exists, varsS>>

\* the scraper ended with a non-zero status
ScraperFailed ==
    /\ ipc = "scraper" /\ spc = "exited"
    /\ scraper_exit # 0
    /\ ExitFailure(connected)

\* upload_to_database: SUPABASE_URL or SUPABASE_ANON_KEY is not set
MissingCredentials ==
    /\ ipc = "scraper" /\ spc = "exited"
    /\ scraper_exit = 0
    /\ ~(env.SUPABASE_URL /\ env.SUPABASE_ANON_KEY)
    /\ ExitFailure(connected)

\* upload_to_database: products.json is not there
SnapshotNotFound ==
    /\ ipc = "scraper" /\ spc = "exited"
    /\ scraper_exit = 0
    /\ env.SUPABASE_URL /\ env.SUPABASE_ANON_KEY
    /\ ~file_exists
    /\ ExitFailure(connected)

\* upload_to_database: create_client raises
ClientFails ==
    /\ ipc = "scraper" /\ spc = "exited"
    /\ scraper_exit = 0
    /\ env.SUPABASE_URL /\ env.SUPABASE_ANON_KEY
    /\ file_exists
    /\ ~env.connects
    /\ ExitFailure(Append(connected, "index"))

\* upload_to_database loads products.json and enters its loop
UploadStart ==
    /\ ipc = "scraper" /\ spc = "exited"
    /\ scraper_exit = 0
    /\ env.SUPABASE_URL /\ env.SUPABASE_ANON_KEY
    /\ file_exists
    /\ env.connects
    /\ connected' = Append(connected, "index")
    /\ products' = file
    /\ upc' = "loop"
    /\ ipc' = "upload"
    /\ UNCHANGED <<store, nextId, file, i, run, new_products, updated_products,
                   skipped_products, failed, product_details, calls, faults,
                   stats, varsE, file_exists, varsS, exit_code>>

ExitStatusZero(success) == 0

\* the status main ends with: sys.exit(1) unless success
ExitStatus(success) == IF success THEN 0 ELSE 1

\* main after upload_to_database returned
MainEnds ==
    /\ ipc = "upload" /\ upc = "done"
    /\ exit_code' = ExitStatus(stats.success)
    /\ ipc' = "exit"
    /\ UNCHANGED <<varsU, varsE, file_exists, varsS, connected>>

\* the steps of the two scripts when no call on the table raises
NextB ==
    \/ RunScraper /\ UNCHANGED restR
    \/ NewLightScraper /\ UNCHANGED restR
    \/ UrlListMissing /\ UNCHANGED restR
    \/ LoadFails /\ UNCHANGED restR
    \/ ChoiceRaises /\ UNCHANGED restR
    \/ ChooseBrand /\ UNCHANGED restR
    \/ LoadBrands /\ UNCHANGED restR
    \/ SkipBrand /\ UNCHANGED restR
    \/ RunBrand /\ UNCHANGED restR
    \/ SaveSkipped /\ UNCHANGED restR
    \/ UpsertBatch /\ UNCHANGED restR
    \/ UpsertRaises /\ UNCHANGED restR
    \/ SaveDone /\ UNCHANGED restR
    \/ WriteSnapshot /\ UNCHANGED restR
    \/ ScraperFailed /\ UNCHANGED restR
    \/ MissingCredentials /\ UNCHANGED restR
    \/ SnapshotNotFound /\ UNCHANGED restR
    \/ ClientFails /\ UNCHANGED restR
    \/ UploadStart /\ UNCHANGED restR
    \/ InsertNew /\ UNCHANGED restU
    \/ UpdateExisting /\ UNCHANGED restU
    \/ SkipIdentical /\ UNCHANGED restU
    \/ Summarize /\ UNCHANGED restU
    \/ MainEnds /\ UNCHANGED restR

InitBrands ==
    InitRun({0, 1, 2}, Settings, UrlLists, Sites, Downs)

\* runs of index.py over every brand list, with a table that does not fail
SpecBrands == InitBrands /\ [][NextB]_vars

\* the steps of the two scripts, calls on the table raising now and then
NextR ==
    \/ NextB
    \/ QueryRaises /\ UNCHANGED restU
    \/ InsertRaises /\ UNCHANGED restU
    \/ UpdateRaises /\ UNCHANGED restU

InitPipeline ==
    InitRun({0, 1}, Settings, UrlLists,
            {[u \in {brand_url, brand_url2} |->
                IF u = brand_url THEN ListingSpread ELSE ListingOne]},
            {{}, {item1}})

\* runs of index.py against a table that may fail
SpecPipeline == InitPipeline /\ [][NextR]_vars

(***************************************************************************)
(* The saving part of run_all_brands, after a brand with many items.       *)
(***************************************************************************)
\* records accumulated by the brand loop
MaxRecords == 201

\* the URL of the k-th item of the brand
ItemUrl(k) == <<"https:", "//", "www.bbqguys.com", "/", "i", "/", ToString(k)>>

\* the record of the k-th item
ItemRecord(k) ==
    [Base EXCEPT !.url = ItemUrl(k), !.Title = ToString(k), !.Id = ToString(k)]

\* light_scraper.py, run on its own, has gone over a brand with n items; the
\* table of the uploader holds nothing or the first item as it is now
InitSave ==
    /\ \E n \in 0..MaxRecords :
          /\ all_products = [k \in 1..n |-> ItemRecord(k)]
          /\ runs = << [brand |-> "b1",
                        got |-> [product_urls |-> [k \in 1..n |-> ItemUrl(k)],
                                 products |-> all_products,
                                 raised |-> (n = 0)]] >>
          /\ successful_brands = IF n > 0 THEN 1 ELSE 0
          /\ failed_brands = IF n > 0 THEN <<>> ELSE <<"b1">>
    /\ \E st \in {x \in Settings : x.SUPABASE_URL /\ x.SUPABASE_KEY /\ x.connects} :
          /\ env = [TEST_MODE |-> 0] @@ st
          /\ supabase = st.USE_SUPABASE
          /\ connected = IF st.USE_SUPABASE THEN <<"scraper">> ELSE <<>>
    /\ url_list = [state |-> "ok", brands |-> <<[brand |-> "b1", url |-> brand_url]>>]
    /\ brands = url_list.brands
    /\ bi = 2
    /\ site = [u \in {brand_url, brand_url2} |-> ListingOne]
    /\ down = {}
    /\ spc = "save"
    /\ batch_i = 0
    /\ upserts = <<>>
    /\ written = <<>>
    /\ scraper_exit = -1
    /\ ipc = "idle"
    /\ exit_code = -1
    /\ file_exists = FALSE
    /\ file = <<>>
    /\ store \in {{}, {InsertRow(ItemRecord(1), 1)}}
    /\ nextId = Cardinality(store) + 1
    /\ products = <<>>
    /\ i = 1
    /\ run = 1
    /\ new_products = 0
    /\ updated_products = 0
    /\ skipped_products = 0
    /\ failed = 0
    /\ product_details = <<>>
    /\ calls = <<>>
    /\ faults = 0
    /\ stats = NoStats
    /\ upc = "idle"
    /\ IdleC
    /\ IdleG

NextSave ==
    \/ SaveSkipped /\ UNCHANGED restR
    \/ UpsertBatch /\ UNCHANGED restR
    \/ UpsertRaises /\ UNCHANGED restR
    \/ SaveDone /\ UNCHANGED restR
    \/ WriteSnapshot /\ UNCHANGED restR

\* the end of run_all_brands over record sets of every size
SpecSave == InitSave /\ [][NextSave]_vars

(***************************************************************************)
(* Properties of the reconciliation loop.                                  *)
(***************************************************************************)
ComparedSet == {"Title", "Price", "Image", "Description", "Specifications", "category"}

\* the compared fields in which record p and row e differ
Differing(p, e) == {f \in ComparedSet : p[f] # e[f]}

\* a store call of this record raised
Raised(c) == c.qraised \/ c.wraised

Processed == 1..Len(calls)

\* C1: when upload_to_database runs a second time on the same file against the
\* store the first run left (no store call having raised), every record of the
\* second run is skipped and nothing is written.
C1_SecondRunSkipsAll ==
    (run = 2 /\ faults = 0) =>
        \A k \in Processed :
            /\ product_details[k].action = "skipped"
            /\ calls[k].writes = <<>>

C3_OtherFieldsIgnored ==
    \A k \in Processed : \A e \in calls[k].first :
        (/\ Differing(file[k], e) = {}
         /\ \E g \in SnapshotKeys \ ComparedSet : file[k][g] # e[g]) =>
            /\ product_details[k].action = "skipped"
            /\ calls[k].writes = <<>>
            /\ (k = Len(calls) => e \in store)

C3_Witness ==
    \E k \in Processed : \E e \in calls[k].first :
        /\ file[k].url # e.url
        /\ file[k].Other_image = e.Other_image
        /\ Differing(file[k], e) = {}
        /\ product_details[k].action = "skipped"
        /\ e \in store

\* C4: whatever store calls raise, the records are processed in order, each
\* gets exactly one decision, and the summary counts failed = the records
\* whose call raised, new + updated + skipped = the others, total = all.
C4_FaultIsolation ==
    LET k_failed == Cardinality({k \in Processed : Raised(calls[k])})
    IN  /\ Len(product_details) = Len(calls)
        /\ \A k \in Processed :
              /\ calls[k].rec = k
              /\ product_details[k].title = file[k].Title
              /\ (product_details[k].action = "failed") <=> Raised(calls[k])
        /\ upc = "loop" => Len(calls) = i - 1
        /\ upc = "done" =>
              /\ Len(calls) = Len(file)
              /\ stats.details = product_details
              /\ stats.total = Len(file)
              /\ stats.failed = k_failed
              /\ stats.new + stats.updated + stats.skipped = Len(file) - k_failed
              /\ stats.success <=> (k_failed = 0)

C4_Witness ==
    /\ upc = "done"
    /\ Len(file) = 2
    /\ stats.failed = 1
    /\ product_details[1].action = "failed"
    /\ product_details[2].action \in {"new", "updated", "skipped"}

\* C5: a record causes at most one store write: one insert of the record when
\* the lookup returned no row, one update addressed to the id of the first
\* returned row when a compared field differs from that row, none otherwise;
\* and the decision is new, updated or skipped accordingly (failed when the
\* call raised).
C5_OneWritePerRecord ==
    \A k \in Processed :
        LET c == calls[k]
            action == product_details[k].action
        IN  /\ Len(c.writes) <= 1
            /\ c.qraised => (c.writes = <<>> /\ action = "failed")
            /\ (~c.qraised /\ c.data = {}) =>
                  /\ c.first = {}
                  /\ c.writes = <<Write("insert", 0, file[k])>>
                  /\ action = IF c.wraised THEN "failed" ELSE "new"
            /\ (~c.qraised /\ c.data # {}) =>
                  \E e \in c.data :
                      /\ c.first = {e}
                      /\ IF Differing(file[k], e) # {}
                         THEN /\ Len(c.writes) = 1
                              /\ c.writes[1].op = "update"
                              /\ c.writes[1].target = e.id
                              /\ action = IF c.wraised THEN "failed" ELSE "updated"
                         ELSE /\ c.writes = <<>>
                              /\ action = "skipped"

C5_Witness ==
    /\ upc = "done"
    /\ Len(file) = 2
    /\ product_details[1].action = "updated"
    /\ product_details[2].action = "skipped"
    /\ Cardinality(calls[1].data) = 2

\* the rows that agree with record p on each of its non-empty key fields
AgreeOnKey(p, rows) ==
    {r \in rows : \A f \in {"brand", "Id", "Model"} : p[f] # "" => r[f] = p[f]}

\* C6: the lookup of a record returns exactly the rows of the store that agree
\* with it on every key field that is non-empty in the record, hence every row
\* when all three are empty.
C6_LookupFilter ==
    [][(Len(calls') = Len(calls) + 1 /\ ~calls'[Len(calls')].qraised) =>
          calls'[Len(calls')].data = AgreeOnKey(file[i], store)]_vars

C6_Witness ==
    \E k \in Processed :
        /\ file[k].brand = "" /\ file[k].Id = "" /\ file[k].Model = ""
        /\ ~calls[k].qraised
        /\ Cardinality(calls[k].data) = 2

\* C7: reconciliation leaves the records of the list as they were loaded.
C7_RecordNotMutated ==
    \A k \in 1..Len(products) : products[k] = file[k]

(***************************************************************************)
(* Properties of the URL collector.                                        *)
(***************************************************************************)
\* the text of a URL or href before its query string and fragment
StripQF(url) == SubSeq(url, 1, FirstIn(url, {"?", "#"}, 1) - 1)

\* the canonical URL of an href
CanonOf == [href \in Hrefs |-> StripQF(urljoin(base_url, href))]

Canon(href) == CanonOf[href]

\* the item links of the pages fetched so far, in page order
RECURSIVE LinksOf(_)
LinksOf(log) ==
    IF log = <<>> THEN <<>>
    ELSE (IF Head(log).ok THEN SelectLinks(Head(log).anchors) ELSE <<>>)
         \o LinksOf(Tail(log))

\* the limit on the number of URLs, 0 when there is none
Limit == IF test_mode \in {1, 2} THEN test_mode ELSE 0

\* the first occurrences of the canonical URLs of links, at most n when n > 0
RECURSIVE FirstDistinct(_, _, _)
FirstDistinct(links, acc, n) ==
    IF links = <<>> \/ (n > 0 /\ Len(acc) >= n) THEN acc
    ELSE FirstDistinct(Tail(links),
                       IF Canon(Head(links)) \in Range(acc) THEN acc
                       ELSE Append(acc, Canon(Head(links))),
                       n)

Occurrences(url) == Cardinality({k \in 1..Len(all_urls) : all_urls[k] = url})

C9_CollectionLimit ==
    /\ \A k \in 1..Len(pages) : pages[k].num = k /\ pages[k].url = PageUrl(k)
    /\ Len(pages) <= total_pages
    /\ Limit # 0 =>
          /\ Len(all_urls) <= Limit
          /\ \A k \in 1..Len(pages) : pages[k].had < Limit
          /\ (cpc = "done" /\ Len(all_urls) < Limit) => Len(pages) = total_pages
    /\ (Limit = 0 /\ cpc = "done") => Len(pages) = total_pages

C9_Witness ==
    /\ cpc = "done"
    /\ test_mode = 1
    /\ total_pages = 2
    /\ Len(pages) = 1
    /\ Len(all_urls) = 1
    /\ Cardinality({Canon(h) : h \in Range(LinksOf(pages))}) = 2

\* C10: a page that cannot be fetched is skipped: the pages are requested in
\* order up to the last one or until the limit is reached, whichever fetches
\* fail, and the URLs gathered are the canonical URLs of the links of the
\* fetched pages in page order, each once, up to the limit; when every page
\* after the first fails they are what page 1 gives.
C10_FetchFailureSkipsPage ==
    /\ \A k \in 1..Len(pages) : pages[k].num = k
    /\ all_urls = FirstDistinct(LinksOf(pages), <<>>, Limit)
    /\ cpc = "done" =>
          \/ Len(pages) = total_pages
          \/ (Limit # 0 /\ Len(all_urls) = Limit)
    /\ (Len(pages) >= 1 /\ \A k \in 2..Len(pages) : ~pages[k].ok) =>
          all_urls = FirstDistinct(LinksOf(<<pages[1]>>), <<>>, Limit)

C10_Witness ==
    /\ cpc = "done"
    /\ total_pages = 2
    /\ Len(pages) = 2
    /\ ~pages[1].ok
    /\ pages[2].ok
    /\ Len(all_urls) = 2


\* the page numbers a pagination region shows: the numbers after "page" in
\* the aria-labels that hold "page", and the button texts that are numbers
NumbersFound(d) ==
    IF d.fetched /\ d.nav
    THEN UNION { { IntOf[l[k + 1]] :
                     k \in { k \in 1..(Len(l) - 1) :
                               l[k] = "page" /\ l[k + 1] \in DOMAIN IntOf } } :
                 l \in { d.labels[b] :
                           b \in { b \in 1..Len(d.labels) : SelectsPage(d.labels[b]) } } }
         \cup { IntOf[d.numbers[b]] :
                  b \in { b \in 1..Len(d.numbers) : d.numbers[b] \in DOMAIN IntOf } }
    ELSE {}

\* C11: get_page_count returns at least 1: the largest of 1 and the page
\* numbers found in the pagination region, hence 1 when the page cannot be
\* fetched, has no pagination region or shows no number
C11_PageCountAtLeastOne ==
    gpc = "done" =>
        /\ max_page >= 1
        /\ max_page \in {1} \cup NumbersFound(soup)
        /\ \A n \in NumbersFound(soup) : n <= max_page
        /\ (~soup.fetched \/ ~soup.nav \/ NumbersFound(soup) = {}) => max_page = 1

\* a counted page whose largest number is not the last one shown
C11_Witness ==
    /\ gpc = "done"
    /\ soup.fetched /\ soup.nav
    /\ Len(soup.labels) = 2 /\ Len(soup.numbers) = 1
    /\ soup.labels[1] = <<"Go", "to", "page", "3">>
    /\ soup.labels[2] = <<"page", "0">>
    /\ soup.numbers[1] = "1"
    /\ max_page = 3


(***************************************************************************)
(* Properties of a run of the two scripts.                                 *)
(***************************************************************************)
\* run_all_brands got past loading the brand list, and the script has ended
RanBrands == spc = "exited" /\ url_list.state = "ok"

\* C12 as stated: with TEST_MODE=1 the pages of exactly one brand are
\* fetched, and the run produces at most one record
C12_OneBrandTouched ==
    (env.TEST_MODE = 1 /\ RanBrands) =>
        /\ Len(runs) = 1
        /\ Len(all_products) <= 1

\* C12, amended: with TEST_MODE=1 the pages of at most one brand are fetched,
\* the brand chosen from the list, and exactly one when a brand was chosen
\* and it has a url; the run produces at most one record
C12_AtMostOneBrand ==
    env.TEST_MODE = 1 =>
        /\ Len(runs) <= 1
        /\ \A k \in 1..Len(runs) :
              /\ Len(brands) = 1
              /\ runs[k].brand = brands[1].brand
              /\ brands[1] \in Range(url_list.brands)
        /\ Len(all_products) <= 1
        /\ \A k \in 1..Len(written) : Len(written[k]) <= 1
        /\ (RanBrands /\ Len(brands) = 1 /\ brands[1].url # <<>>) => Len(runs) = 1

\* a list of two brands with urls, the second chosen, whose listing has more
\* than one item
C12_Witness ==
    /\ env.TEST_MODE = 1
    /\ RanBrands
    /\ Len(url_list.brands) = 2
    /\ url_list.brands[1].brand = "b1"
    /\ url_list.brands[2].brand = "b2"
    /\ Len(runs) = 1
    /\ runs[1].brand = "b2"
    /\ site[brand_url2] = ListingTwo
    /\ Len(all_products) = 1


\* the records the calls of run() gave, call after call
RECURSIVE Contributions(_)
Contributions(rs) ==
    IF rs = <<>> THEN <<>> ELSE Head(rs).got.products \o Contributions(Tail(rs))

\* C13: with TEST_MODE=2 every processed brand contributes at most 2 records
\* to the record set of the run
C13_TwoPerBrand ==
    env.TEST_MODE = 2 =>
        /\ \A k \in 1..Len(runs) :
              /\ Len(runs[k].got.product_urls) <= 2
              /\ Len(runs[k].got.products) <= 2
        /\ all_products = Contributions(runs)

\* a brand with three items on its second page, and one with items on two
\* pages, gave two records each
C13_Witness ==
    /\ env.TEST_MODE = 2
    /\ RanBrands
    /\ Len(runs) = 2
    /\ site[brand_url] = ListingSpread
    /\ site[brand_url2] = ListingTwo
    /\ runs[1].brand = "b1" /\ runs[2].brand = "b2"
    /\ Len(runs[1].got.products) = 2
    /\ Len(runs[2].got.products) = 2
    /\ Len(all_products) = 4


\* C14: in every run of run_all_brands that gets past loading the brand
\* list, products.json is written exactly once, after the last brand, and
\* holds every accumulated record, whatever became of the store
C14_SnapshotWrittenOnce ==
    /\ spc \in {"init", "main", "brands", "save", "snapshot"} => written = <<>>
    /\ RanBrands =>
          /\ Len(written) = 1
          /\ bi > Len(brands)
          /\ written[1] = all_products
          /\ all_products = Contributions(runs)


\* main of index.py has ended after upload_to_database went through the file
Reconciled == ipc = "exit" /\ upc = "done"

\* C15 as stated: a run in which records were classified Failed, with no
\* configuration fault, still gives the summary and does not end with a
\* non-zero status
C15_FailedRecordsNotFatal ==
    (Reconciled /\ stats.failed >= 1) =>
        /\ stats.total = Len(file)
        /\ exit_code = 0

\* C15, amended: such a run goes through every record and gives the summary,
\* and ends with status 1; the status is 0 exactly when no record Failed
C15_FailedRecordsExitOne ==
    Reconciled =>
        /\ Len(product_details) = Len(file)
        /\ stats.details = product_details
        /\ stats.total = Len(file)
        /\ stats.new + stats.updated + stats.skipped + stats.failed = stats.total
        /\ stats.failed = Cardinality({k \in Processed : Raised(calls[k])})
        /\ exit_code = (IF stats.failed >= 1 THEN 1 ELSE 0)

\* the first record Failed, later ones were written, and the run ended
C15_Witness ==
    /\ Reconciled
    /\ stats.total >= 3
    /\ stats.failed = 1
    /\ product_details[1].action = "failed"
    /\ stats.new >= 1
    /\ exit_code = 1

\* a configuration fault: the uploader's credentials are not set, or
\* url_list.json is missing or is not JSON
ConfigurationFault ==
    \/ ~(env.SUPABASE_URL /\ env.SUPABASE_ANON_KEY)
    \/ url_list.state \in {"missing", "unparseable"}

\* C16: under a configuration fault the run ends with a non-zero status, and
\* no brand page has been fetched before it ends
C16_ConfigurationFaultFatal ==
    (ConfigurationFault /\ ipc = "exit") =>
        /\ exit_code # 0
        /\ runs = <<>>

\* C17: with USE_SUPABASE false a run of index.py attempts no store
\* operation, neither client creation nor query, insert, update or upsert,
\* and products.json is still written
C17_StoreGateHonoured ==
    ~env.USE_SUPABASE =>
        /\ connected = <<>>
        /\ upserts = <<>>
        /\ calls = <<>>
        /\ (RanBrands /\ bi > Len(brands)) => Len(written) = 1

\* the brands the loop has gone over
BrandsDone == SubSeq(brands, 1, bi - 1)

\* the records of the URLs of us that can be reached, in the order of us
RECURSIVE Extracted(_)
Extracted(us) ==
    IF us = <<>> THEN <<>>
    ELSE IF Head(us) \in down THEN Extracted(Tail(us))
         ELSE <<scrape_product(Head(us))>> \o Extracted(Tail(us))

RECURSIVE ExtractedOfRuns(_)
ExtractedOfRuns(rs) ==
    IF rs = <<>> THEN <<>>
    ELSE Extracted(Head(rs).got.product_urls) \o ExtractedOfRuns(Tail(rs))

\* C18: the record set is, brand by brand in the order of the list, the
\* records of the brand's reachable URLs in the order the URLs were
\* collected; it is what the run writes to products.json, and
\* upload_to_database goes through the records written in that order
C18_RunOrderPreserved ==
    /\ spc \in {"brands", "save", "snapshot", "exited"} /\ url_list.state = "ok" =>
          /\ [k \in 1..Len(runs) |-> runs[k].brand]
                = [k \in 1..Len(SelectSeq(BrandsDone, LAMBDA b : b.url # <<>>)) |->
                      SelectSeq(BrandsDone, LAMBDA b : b.url # <<>>)[k].brand]
          /\ all_products = ExtractedOfRuns(runs)
    /\ \A k \in 1..Len(written) : written[k] = all_products /\ file = all_products
    /\ (written # <<>> /\ upc \in {"loop", "done"}) =>
          /\ Len(products) = Len(all_products)
          /\ \A k \in 1..Len(products), f \in SnapshotKeys :
                products[k][f] = all_products[k][f]
          /\ Len(product_details) = i - 1
          /\ \A k \in 1..Len(product_details) :
                /\ calls[k].rec = k
                /\ product_details[k].title = all_products[k].Title

\* two brands; the second URL of the first brand's three could not be
\* extracted; all four records were reconciled
C18_Witness ==
    /\ Reconciled
    /\ env.TEST_MODE = 0
    /\ Len(runs) = 2
    /\ Len(runs[1].got.product_urls) = 3
    /\ runs[1].got.product_urls[2] \in down
    /\ Len(runs[1].got.products) = 2
    /\ Len(all_products) = 4
    /\ Len(product_details) = 4


\* upload_to_database can classify the record Skipped: the lookup returns
\* a row that agrees with it on the compared fields
WouldSkip(record) ==
    \E e \in Execute(BuildQuery(record), store) : ~NeedsUpdate(record, e)

RECURSIVE Batches(_)
Batches(us) ==
    IF us = <<>> THEN <<>> ELSE Head(us).batch \o Batches(Tail(us))

\* save_to_supabase has returned or was not called
Saved == spc \in {"snapshot", "exited"}

C20_UpdateKeepsKey ==
    [][(/\ Len(product_details') = Len(product_details) + 1
        /\ product_details'[Len(product_details')].action = "updated")
          => \A r \in store, r2 \in store' :
                r2.id = r.id => KeyOf(r2) = KeyOf(r)]_vars


\* C21: the store starts with no two rows sharing (brand, Id, Model), and
\* whatever records upload_to_database processes, with full, partial, empty
\* or repeated keys, no two rows of the store share (brand, Id, Model)
C21_KeysStayUnique ==
    \A r \in store, r2 \in store : r.id # r2.id => KeyOf(r) # KeyOf(r2)


\* C22: in a run of index.py, when upload_to_database has read products.json
\* the file is the one this run's scraper step wrote, and the records it goes
\* through are the records of that scrape; after a scraper step that wrote
\* nothing, no record is looked up or written
C22_UploadsOwnSnapshot ==
    /\ upc # "idle" =>
          /\ Len(written) = 1
          /\ file = written[1]
          /\ Len(products) = Len(all_products)
          /\ \A k \in 1..Len(products), f \in SnapshotKeys :
                products[k][f] = all_products[k][f]
    /\ written = <<>> => (calls = <<>> /\ store = {})


\* url is an item URL of the catalog site: scheme and host are those of
\* base_url and the path holds /i/
IsItemUrl(url) ==
    /\ urlparse(url).scheme = urlparse(base_url).scheme
    /\ urlparse(url).netloc = urlparse(base_url).netloc
    /\ Contains(urlparse(url).path, <<"/", "i", "/">>)

\* C23: every URL extract_product_urls has gathered is an item URL of the
\* catalog site, whatever hrefs the listing pages held: relative or absolute,
\* with /i/ in the path or only in the query string or the fragment
C23_OnlyItemUrls ==
    \A k \in 1..Len(all_urls) : IsItemUrl(all_urls[k])

====
